---- MODULE Spec2Model ----
(***************************************************************************)
(* Model of the PPT study assistant (Streamlit application).               *)
(*                                                                         *)
(* The state is st.session_state (src/app.py:104-132); every action is one *)
(* widget event handled by one run of the script.  A widget that the       *)
(* script does not render cannot fire: the action for such an attempt      *)
(* leaves the session as it is and records the outcome in `last`, which is *)
(* a history variable: operation, outcome, question id of the last event,  *)
(* and the value submitted when the event reached a question's input.      *)
(*                                                                         *)
(* Python values are dynamically typed; they are modelled as tagged        *)
(* records (PyInt, PyStr, PyNone) and a missing dict key as PyAbsent.      *)
(* A str is a sequence of one-character strings.                           *)
(***************************************************************************)
EXTENDS Integers, Sequences, FiniteSets, TLC

VARIABLES
    processed,          \* st.session_state.processed
    slides_data,        \* st.session_state.slides_data
    summary,            \* st.session_state.summary
    quizzes,            \* st.session_state.quizzes (the Quiz Set)
    quiz_answers,       \* st.session_state.quiz_answers (Answer Record)
    wrong_answers,      \* st.session_state.wrong_answers (ledger)
    chat_history,       \* st.session_state.chat_history
    current_quiz_stage, \* st.session_state.current_quiz_stage
    ppt_context,        \* st.session_state.ppt_context
    feedback,           \* st.session_state.feedback
    env,                \* os.environ: which credentials are set
    last                \* history: the last event and its outcome

vars == <<processed, slides_data, summary, quizzes, quiz_answers, wrong_answers,
          chat_history, current_quiz_stage, ppt_context, feedback, env, last>>

\* The fields of the quiz session proper.
session == <<quizzes, quiz_answers, wrong_answers, current_quiz_stage, feedback>>

-----------------------------------------------------------------------------
(* Bounds of the model *)

MaxChat == 2
GenMaxStages == 3
GenMaxQuestions == 3
MaxSlides == 2

-----------------------------------------------------------------------------
(* Python values *)

PyInt(n) == [t |-> "int", n |-> n, s |-> <<>>]
PyStr(s) == [t |-> "str", n |-> 0, s |-> s]
PyNone == [t |-> "None", n |-> 0, s |-> <<>>]
PyAbsent == [t |-> "absent", n |-> 0, s |-> <<>>]

\* dict.get(key): None when the key is missing
Get(v) == IF v = PyAbsent THEN PyNone ELSE v

\* dict.get(key, default)
GetDefault(v, d) == IF v = PyAbsent THEN d ELSE v

\* seq[k] of Python: TRUE iff it does not raise (IndexError, TypeError)
IndexOk(seq, k) == k.t = "int" /\ k.n >= 0 - Len(seq) /\ k.n < Len(seq)

\* seq[k] of Python, negative k counting from the end
Index(seq, k) == IF k.n >= 0 THEN seq[k.n + 1] ELSE seq[Len(seq) + k.n + 1]

IsSpace(c) == c \in {" ", "\t", "\n"}

RECURSIVE LStrip(_)
LStrip(s) == IF s # <<>> /\ IsSpace(Head(s)) THEN LStrip(Tail(s)) ELSE s

RECURSIVE RStrip(_)
RStrip(s) ==
    IF s # <<>> /\ IsSpace(s[Len(s)]) THEN RStrip(SubSeq(s, 1, Len(s) - 1)) ELSE s

\* str.strip()
Strip(s) == RStrip(LStrip(s))

LowerChar(c) ==
    CASE c = "P" -> "p"
      [] c = "R" -> "r"
      [] OTHER -> c

\* str.lower()
Lower(s) == [i \in 1..Len(s) |-> LowerChar(s[i])]

\* the empty dict
EmptyDict == [k \in {} |-> PyNone]

\* d[k] = v
DictSet(d, k, v) == [x \in (DOMAIN d) \cup {k} |-> IF x = k THEN v ELSE d[x]]

-----------------------------------------------------------------------------
(* Questions and model responses *)

ABC == << <<"A">>, <<"B">>, <<"C">> >>

MC(ans) == [id |-> PyAbsent, type |-> "multiple_choice", options |-> ABC, answer |-> ans]

MCNoOptions ==
    [id |-> PyAbsent, type |-> "multiple_choice", options |-> <<>>, answer |-> PyInt(0)]

Text(type, ans) == [id |-> PyAbsent, type |-> type, options |-> <<>>, answer |-> ans]

Paris == <<"p">>

Stage(qs) == [questions |-> qs]

\* The texts a learner types into st.text_input
Texts == { <<"p">>, <<" ", "P", " ">>, <<"r">> }

\* What a click or a submit carries: an option index or the typed text
SubmitValues == {PyInt(i) : i \in 0..3} \cup {PyStr(x) : x \in Texts}

-----------------------------------------------------------------------------
(* Quiz Generator: src/modules/generator.py *)

\* get_fallback_quizzes(): three stages, one "generation failed" question
get_fallback_quizzes ==
    << [questions |->
           << [id |-> PyInt(1), type |-> "multiple_choice",
               options |-> << <<"o", "1">>, <<"o", "2">>, <<"o", "3">>, <<"o", "4">> >>,
               answer |-> PyInt(0)] >>],
       [questions |-> <<>>],
       [questions |-> <<>>] >>

\* Mutant: the numbering starts again at every stage
RECURSIVE AssignIdsPerStage(_, _)
AssignIdsPerStage(stages, question_id) ==
    IF stages = <<>> THEN <<>>
    ELSE LET qs == Head(stages).questions
             numbered == [j \in 1..Len(qs) |->
                             [qs[j] EXCEPT !.id = PyInt(question_id + j - 1)]]
         IN  <<[questions |-> numbered]>> \o AssignIdsPerStage(Tail(stages), question_id)

\* generator.py:367-372: question["id"] = question_id; question_id += 1,
\* over the stages in order and the questions of each stage in order
RECURSIVE AssignIds(_, _)
AssignIds(stages, question_id) ==
    IF stages = <<>> THEN <<>>
    ELSE LET qs == Head(stages).questions
             numbered == [j \in 1..Len(qs) |->
                             [qs[j] EXCEPT !.id = PyInt(question_id + j - 1)]]
         IN  <<[questions |-> numbered]>>
                 \o AssignIds(Tail(stages), question_id + Len(qs))

\* str.startswith and str.endswith
StartsWith(s, prefix) ==
    Len(s) >= Len(prefix) /\ SubSeq(s, 1, Len(prefix)) = prefix

EndsWith(s, suffix) ==
    Len(s) >= Len(suffix) /\ SubSeq(s, Len(s) - Len(suffix) + 1, Len(s)) = suffix

\* The grave accent (U+0060), which a TLA+ string cannot hold, is written "~"
Grave == "~"

\* The Markdown code fence, three grave accents
Fence == <<Grave, Grave, Grave>>

FenceJson == Fence \o <<"j", "s", "o", "n">>

\* generator.py:48-58: the scan from start_idx on, counting start_char up
\* and end_char down; the index (counted from 1) of the end_char that brings
\* the count to 0, or the last index of the text when none does
RECURSIVE MatchEnd(_, _, _, _, _)
MatchEnd(text, i, bracket_count, start_char, end_char) ==
    IF i > Len(text) THEN Len(text)
    ELSE IF text[i] = start_char
         THEN MatchEnd(text, i + 1, bracket_count + 1, start_char, end_char)
         ELSE IF text[i] = end_char
              THEN IF bracket_count - 1 = 0
                   THEN i
                   ELSE MatchEnd(text, i + 1, bracket_count - 1, start_char, end_char)
              ELSE MatchEnd(text, i + 1, bracket_count, start_char, end_char)

\* generator.py:19-62: clean_json_response
clean_json_response(response_text) ==
    LET stripped == Strip(response_text)
        unfenced ==
            IF StartsWith(stripped, FenceJson)
            THEN SubSeq(stripped, Len(FenceJson) + 1, Len(stripped))
            ELSE IF StartsWith(stripped, Fence)
                 THEN SubSeq(stripped, Len(Fence) + 1, Len(stripped))
                 ELSE stripped
        unclosed ==
            IF EndsWith(unfenced, Fence)
            THEN SubSeq(unfenced, 1, Len(unfenced) - Len(Fence))
            ELSE unfenced
        text == Strip(unclosed)
        starts == { i \in 1..Len(text) : text[i] \in {"{", "["} }
    IN  IF starts = {}
        THEN text
        ELSE LET start_idx == CHOOSE i \in starts : \A k \in starts : i <= k
                 end_char == IF text[start_idx] = "{" THEN "}" ELSE "]"
             IN  SubSeq(text, start_idx,
                        MatchEnd(text, start_idx, 0, text[start_idx], end_char))

\* A model response: kind "transport" (the request raised), "malformed" (no
\* parseable JSON), "array" (a JSON array), "object" (a JSON object, with or
\* without the "stages" key)
Response(kind, hasStages, stages) ==
    [kind |-> kind, hasStages |-> hasStages, stages |-> stages]

\* Mutant: a response without parseable JSON gives an empty Quiz Set
GenerateQuizzesNoFallback(resp) ==
    CASE resp.kind = "transport" -> get_fallback_quizzes
      [] resp.kind = "malformed" -> <<>>
      [] resp.kind = "array" -> get_fallback_quizzes
      [] OTHER ->
           IF resp.hasStages THEN AssignIds(resp.stages, 1) ELSE <<>>

\* generate_quizzes(): the try block and its two except clauses
generate_quizzes(resp) ==
    CASE resp.kind = "transport" -> get_fallback_quizzes   \* except Exception
      [] resp.kind = "malformed" -> get_fallback_quizzes   \* except JSONDecodeError
      [] resp.kind = "array" -> get_fallback_quizzes       \* list has no .get
      [] OTHER ->
           IF resp.hasStages THEN AssignIds(resp.stages, 1) ELSE <<>>

\* The questions of a Quiz Set, stage by stage in order
RECURSIVE AllQuestions(_)
AllQuestions(stages) ==
    IF stages = <<>> THEN <<>>
    ELSE Head(stages).questions \o AllQuestions(Tail(stages))

\* The quiz responses the session specification draws from: Quiz Sets of
\* zero to four stages, with every shape of question the model can emit
QuizCatalog ==
    { << Stage(<<MC(PyInt(1)), Text("short_answer", PyStr(Paris))>>),
         Stage(<<MC(PyInt(3))>>),
         Stage(<<>>) >>,
      << Stage(<<MC(PyInt(0 - 1))>>),
         Stage(<<Text("short_answer", PyAbsent)>>),
         Stage(<<Text("fill_blank", PyStr(Paris)), Text("essay", PyStr(Paris))>>) >>,
      << Stage(<<MC(PyAbsent), MC(PyNone)>>) >>,
      << Stage(<<Text("short_answer", PyInt(1))>>),
         Stage(<<MCNoOptions, MC(PyStr(<<"1">>))>>) >>,
      << >>,
      << Stage(<<>>), Stage(<<>>), Stage(<<>>) >>,
      << Stage(<<MC(PyInt(2))>>), Stage(<<>>), Stage(<<>>),
         Stage(<<Text("short_answer", PyStr(Paris))>>) >> }

QuizResponses ==
    { Response("object", TRUE, st) : st \in QuizCatalog }
        \cup { Response("transport", FALSE, <<>>), Response("object", FALSE, <<>>) }

\* The quiz responses the generator specification draws from: every list of
\* up to GenMaxStages stages holding up to GenMaxQuestions questions in all,
\* the model having emitted for each question no id, the id 1 or the id 2
\* (so ids are missing, duplicated or out of order), and the failing calls
GenEmittedIds == {PyAbsent, PyInt(1), PyInt(2)}

GenQuestion(id) ==
    [id |-> id, type |-> "short_answer", options |-> <<>>, answer |-> PyStr(Paris)]

RECURSIVE SumSeq(_)
SumSeq(sz) == IF sz = <<>> THEN 0 ELSE Head(sz) + SumSeq(Tail(sz))

GenShapes ==
    UNION { { sz \in [1..n -> 0..GenMaxQuestions] : SumSeq(sz) <= GenMaxQuestions } :
              n \in 0..GenMaxStages }

GenStages(sz, ids) ==
    [k \in 1..Len(sz) |->
        Stage([j \in 1..sz[k] |-> GenQuestion(ids[SumSeq(SubSeq(sz, 1, k - 1)) + j])])]

GenResponses ==
    UNION { { Response("object", TRUE, GenStages(sz, ids)) :
                ids \in [1..SumSeq(sz) -> GenEmittedIds] } : sz \in GenShapes }
        \cup { Response("transport", FALSE, <<>>), Response("malformed", FALSE, <<>>),
               Response("array", FALSE, <<>>), Response("object", FALSE, <<>>) }

-----------------------------------------------------------------------------
(* Deck processing: src/app.py process_ppt and its collaborators *)

Slide(num, images) == [slide_num |-> num, images |-> images, vision_analysis |-> ""]

\* What extract_slide_content returns when it does not raise: the decks of
\* up to MaxSlides slides, numbered from 1, each with 0 or 2 images
ParsedDecks ==
    UNION { { [i \in 1..k |-> Slide(i, imgs[i])] : imgs \in [1..k -> {0, 2}] } :
              k \in 0..MaxSlides }

\* Outcomes of one model call
ModelOutcomes == {"ok", "failed"}

\* Outcomes of one model call whose response is parsed as JSON: "failed" is
\* a request that raised, "malformed" a response without parseable JSON
CallOutcomes == {"ok", "failed", "malformed"}

\* analyze_image(): the model's text whatever it is (it is not parsed), or
\* the inline error string when the request raised
analyze_image(outcome) == IF outcome = "failed" THEN "analysis failed" ELSE "analysis"

\* app.py:174-179: the first image of every slide that has images is analysed
AnalyzeImages(deck, vis) ==
    [i \in 1..Len(deck) |->
        IF deck[i].images > 0
        THEN [deck[i] EXCEPT !.vision_analysis = analyze_image(vis[i])]
        ELSE deck[i]]

\* generate_summary(): the parsed result, or one of the two degraded
\* summaries: that of except JSONDecodeError (a response without parseable
\* JSON) and that of except Exception (the request raised).  one_line is a
\* text, "" standing for the empty one; keywords and slide_summaries are
\* modelled by their lengths.
generate_summary(outcome) ==
    CASE outcome = "ok" ->
           [one_line |-> "summary", keywords |-> 5, slide_summaries |-> 1]
      [] outcome = "malformed" ->
           [one_line |-> "summary: JSON parsing error", keywords |-> 0,
            slide_summaries |-> 0]
      [] OTHER ->
           [one_line |-> "summary failed: error text", keywords |-> 0,
            slide_summaries |-> 0]

NoSummary == [one_line |-> "None", keywords |-> 0, slide_summaries |-> 0]

\* format_ppt_for_context(): one part per slide, the image analysis appended
\* when the slide has one
format_ppt_for_context(slides) ==
    [i \in 1..Len(slides) |->
        IF slides[i].vision_analysis # ""
        THEN <<slides[i].slide_num, "image_analysis", slides[i].vision_analysis>>
        ELSE <<slides[i].slide_num>>]

NoFeedback == [analysis |-> "None", weak_areas |-> 0, recommendations |-> 0]

\* The credentials read with os.getenv
AllCredentials == [AWS_BEARER_TOKEN_BEDROCK |-> TRUE, ANTHROPIC_API_KEY |-> TRUE]

\* app.py:134-144: the script stops (st.stop) before any handler when the
\* Bedrock token is not set
Started == env.AWS_BEARER_TOKEN_BEDROCK

Event(op, outcome, qid, value) ==
    [op |-> op, outcome |-> outcome, qid |-> qid, value |-> value]

RECURSIVE VisionCallsEveryImage(_)
RECURSIVE VisionCalls(_)

\* Mutant: every image of a slide is sent to the vision model
VisionCallsEveryImage(deck) ==
    IF deck = <<>> THEN <<>>
    ELSE [j \in 1..Head(deck).images |->
              [slide_num |-> Head(deck).slide_num, image |-> j - 1]]
           \o VisionCallsEveryImage(Tail(deck))

\* app.py:174-178: the calls of analyze_image the loop makes over a deck, in
\* order: one for each slide with images, on slide["images"][0]
VisionCalls(deck) ==
    IF deck = <<>> THEN <<>>
    ELSE (IF Head(deck).images > 0
          THEN <<[slide_num |-> Head(deck).slide_num, image |-> 0]>>
          ELSE <<>>)
           \o VisionCalls(Tail(deck))

\* The event of a process_ppt run: its outcome, the number of recorded
\* answers of the previous session that its reset discarded, either the
\* step that raised or the outcomes of the summary and the quiz call, and
\* the calls of analyze_image it made
ProcessEvent(outcome, dropped, calls, vision) ==
    Event("process_ppt", outcome, 0,
          [t |-> "calls", n |-> dropped, s |-> calls, vision |-> vision])

\* Mutant: the reset at the top of process_ppt leaves the ledger as it is
ResetPreviousStateKeepsLedger ==
    /\ quiz_answers' = EmptyDict
    /\ wrong_answers' = wrong_answers
    /\ current_quiz_stage' = 0
    /\ chat_history' = <<>>
    /\ feedback' = NoFeedback

\* app.py:152-157: the reset of the previous session, before the try block
ResetPreviousState ==
    /\ quiz_answers' = EmptyDict
    /\ wrong_answers' = <<>>
    /\ current_quiz_stage' = 0
    /\ chat_history' = <<>>
    /\ feedback' = NoFeedback

\* Mutant: generate_summary lets the exception of a failed call through
EscapesFromSummary(step, outcome) == step = "generate_summary" /\ outcome # "ok"

\* Whether a failed model call leaves the callee of process_ppt as an
\* exception: never, each of the three functions catches Exception around
\* its call and returns a value (generator.py:255-262, 177-184, 376-382)
Escapes(step, outcome) ==
    CASE step = "analyze_image" -> FALSE
      [] step = "generate_summary" -> FALSE
      [] step = "generate_quizzes" -> FALSE

\* Mutant: the except clause enters the study view all the same
ExceptEntersStudyView(step, slides, sum, qz, vision) ==
    /\ slides_data' = slides
    /\ summary' = sum
    /\ quizzes' = qz
    /\ processed' = TRUE
    /\ UNCHANGED <<env, ppt_context>>
    /\ last' = ProcessEvent("Raised", Cardinality(DOMAIN quiz_answers), <<step>>,
                            vision)

\* app.py:203-207: the except clause of process_ppt, reached from `step`:
\* the error is shown, what the earlier steps have stored stays stored,
\* processed is not set
Except(step, slides, sum, qz, vision) ==
    /\ slides_data' = slides
    /\ summary' = sum
    /\ quizzes' = qz
    /\ UNCHANGED <<env, processed, ppt_context>>
    /\ last' = ProcessEvent("Raised", Cardinality(DOMAIN quiz_answers), <<step>>,
                            vision)

\* app.py:174-179 when analyze_image raises at slide k: the slides before k
\* carry their analysis already
AnalyzeImagesBefore(deck, vis, k) ==
    [i \in 1..Len(deck) |-> IF i < k THEN AnalyzeImages(deck, vis)[i] ELSE deck[i]]

\* process_ppt(): the reset of the previous session, then the five steps
\* inside one try block; a raising parser, or a callee that lets an
\* exception through, leaves the function through its except clause
ProcessPpt(decks, outcomes, responses) ==
    /\ Started
    /\ ~processed
    /\ ResetPreviousState
    /\ \/ Except("extract_slide_content", slides_data, summary, quizzes, <<>>)
       \/ \E parsed \in decks, vis \in [1..MaxSlides -> outcomes],
             sumOut \in outcomes, resp \in responses :
             LET raising == { i \in 1..Len(parsed) :
                                 /\ parsed[i].images > 0
                                 /\ Escapes("analyze_image", vis[i]) }
                 analysed == AnalyzeImages(parsed, vis)
                 first == CHOOSE k \in raising : \A m \in raising : k <= m
             IN  IF raising # {}
                 THEN Except("analyze_image",
                          AnalyzeImagesBefore(parsed, vis, first),
                          summary, quizzes, VisionCalls(SubSeq(parsed, 1, first)))
                 ELSE IF Escapes("generate_summary", sumOut)
                 THEN Except("generate_summary", analysed, summary, quizzes,
                          VisionCalls(parsed))
                 ELSE IF Escapes("generate_quizzes", resp.kind)
                 THEN Except("generate_quizzes", analysed, generate_summary(sumOut),
                          quizzes, VisionCalls(parsed))
                 ELSE /\ slides_data' = analysed
                      /\ summary' = generate_summary(sumOut)
                      /\ quizzes' = generate_quizzes(resp)
                      /\ ppt_context' = format_ppt_for_context(slides_data')
                      /\ processed' = TRUE
                      /\ UNCHANGED env
                      /\ last' = ProcessEvent("Processed",
                                     Cardinality(DOMAIN quiz_answers),
                                     <<sumOut, resp.kind>>, VisionCalls(parsed))

\* Mutant: the upload button also empties the Answer Record
NewFileUploadClearsAnswers ==
    /\ Started
    /\ processed
    /\ processed' = FALSE
    /\ slides_data' = <<>>
    /\ summary' = NoSummary
    /\ quizzes' = <<>>
    /\ quiz_answers' = EmptyDict
    /\ last' = Event("new_file_upload", "Done", 0, PyNone)
    /\ UNCHANGED <<env, wrong_answers, chat_history, current_quiz_stage,
                   ppt_context, feedback>>

\* app.py:219-225: the "new file upload" button of the study view
NewFileUpload ==
    /\ Started
    /\ processed
    /\ processed' = FALSE
    /\ slides_data' = <<>>
    /\ summary' = NoSummary
    /\ quizzes' = <<>>
    /\ last' = Event("new_file_upload", "Done", 0, PyNone)
    /\ UNCHANGED <<env, quiz_answers, wrong_answers, chat_history,
                   current_quiz_stage, ppt_context, feedback>>

-----------------------------------------------------------------------------
(* Quiz Zone: src/components/quiz.py (the same code is inlined in app.py) *)

\* quiz.py:15: the fixed list of stage names the navigation counts
StageNames == <<"basic", "applied", "advanced">>

\* quiz.py:8: the tab shows only a warning when there is no question at all
QuizShown ==
    /\ processed
    /\ quizzes # <<>>
    /\ \E k \in 1..Len(quizzes) : quizzes[k].questions # <<>>

\* Mutant: the questions of every stage are rendered
AllStagesQuestions == IF QuizShown THEN AllQuestions(quizzes) ELSE <<>>

\* quiz.py:44-46: the questions rendered, those of the current stage
CurrentQuestions ==
    IF QuizShown /\ current_quiz_stage < Len(quizzes)
    THEN quizzes[current_quiz_stage + 1].questions
    ELSE <<>>

\* An event whose widget is not rendered, or whose handler changes nothing
Signal(op, outcome, qid, value) ==
    /\ last' = Event(op, outcome, qid, value)
    /\ UNCHANGED <<env, processed, slides_data, summary, quizzes, quiz_answers,
                   wrong_answers, chat_history, current_quiz_stage, ppt_context,
                   feedback>>

\* quiz.py:38-41: the "next" button
AdvanceOffered == QuizShown /\ current_quiz_stage < Len(StageNames) - 1

advance ==
    /\ Started
    /\ processed
    /\ IF AdvanceOffered
       THEN /\ current_quiz_stage' = current_quiz_stage + 1
            /\ last' = Event("advance", "Moved", 0, PyNone)
            /\ UNCHANGED <<env, processed, slides_data, summary, quizzes, quiz_answers,
                           wrong_answers, chat_history, ppt_context, feedback>>
       ELSE Signal("advance", "AtFinalStage", 0, PyNone)

\* Mutant: the "previous" button is rendered at stage 0 too
RetreatAlwaysOffered == QuizShown

\* quiz.py:33-36: the "previous" button
RetreatOffered == QuizShown /\ current_quiz_stage > 0

retreat ==
    /\ Started
    /\ processed
    /\ IF RetreatOffered
       THEN /\ current_quiz_stage' = current_quiz_stage - 1
            /\ last' = Event("retreat", "Moved", 0, PyNone)
            /\ UNCHANGED <<env, processed, slides_data, summary, quizzes, quiz_answers,
                           wrong_answers, chat_history, ppt_context, feedback>>
       ELSE Signal("retreat", "AtFirstStage", 0, PyNone)

\* Mutant: the restart leaves the ledger as it is
ResetKeepsLedger ==
    /\ Started
    /\ processed
    /\ IF QuizShown /\ ~(current_quiz_stage < Len(quizzes))
       THEN /\ current_quiz_stage' = 0
            /\ quiz_answers' = EmptyDict
            /\ feedback' = NoFeedback
            /\ last' = Event("reset", "Done", 0, PyNone)
            /\ UNCHANGED <<env, processed, slides_data, summary, quizzes, wrong_answers,
                           chat_history, ppt_context>>
       ELSE Signal("reset", "NotOffered", 0, PyNone)

\* quiz.py:43-44, 76-80: the "solve again" button of the all-complete branch
ResetOffered == QuizShown /\ ~(current_quiz_stage < Len(quizzes))

reset ==
    /\ Started
    /\ processed
    /\ IF ResetOffered
       THEN /\ current_quiz_stage' = 0
            /\ quiz_answers' = EmptyDict
            /\ wrong_answers' = <<>>
            /\ feedback' = NoFeedback
            /\ last' = Event("reset", "Done", 0, PyNone)
            /\ UNCHANGED <<env, processed, slides_data, summary, quizzes, chat_history,
                           ppt_context>>
       ELSE Signal("reset", "NotOffered", 0, PyNone)

\* Python's a / b: ZeroDivisionError when b is 0, else the quotient, kept in
\* percent
TrueDiv(a, b) ==
    IF b = 0
    THEN [raised |-> TRUE, percent |-> 0]
    ELSE [raised |-> FALSE, percent |-> (a * 100) \div b]

\* quiz.py:52: total_q = len(questions)
total_q(questions) == Len(questions)

\* Mutant: every recorded answer counts, whatever its stage
AnsweredInAnyStage(questions) == Cardinality(DOMAIN quiz_answers)

\* quiz.py:53: answered_q, the questions of the list whose id is a key of
\* quiz_answers
answered_q(questions) ==
    Cardinality({ j \in 1..Len(questions) : questions[j].id.n \in DOMAIN quiz_answers })

\* quiz.py:54: answered_q / total_q if total_q > 0 else 0
progress_value(questions) ==
    IF total_q(questions) > 0
    THEN TrueDiv(answered_q(questions), total_q(questions))
    ELSE [raised |-> FALSE, percent |-> 0]

\* quiz.py:48-55: a stage without questions shows a notice and no progress
\* bar; any other stage shows the bar with progress_value
render_progress(questions) ==
    IF questions = <<>>
    THEN [bar |-> FALSE, raised |-> FALSE, percent |-> 0]
    ELSE [bar |-> ~progress_value(questions).raised,
          raised |-> progress_value(questions).raised,
          percent |-> progress_value(questions).percent]

\* One entry of the wrong-answer ledger
WrongAnswer(q, user_answer, correct_answer) ==
    [question |-> q, user_answer |-> user_answer, correct_answer |-> correct_answer]

\* quiz.py:107-115: the click on option i (value.n) of a multiple-choice
\* question that has no recorded answer.  The answer is recorded first; a
\* correct_answer lookup that raises ends the run after that assignment.
ClickOption(q, value) ==
    /\ quiz_answers' = DictSet(quiz_answers, q.id.n, value)
    /\ IF value # Get(q.answer)
       THEN IF IndexOk(q.options, GetDefault(q.answer, PyInt(0)))
            THEN /\ wrong_answers' = Append(wrong_answers,
                        WrongAnswer(q, PyStr(Index(q.options, value)),
                            PyStr(Index(q.options, GetDefault(q.answer, PyInt(0))))))
                 /\ last' = Event("submitAnswer", "Incorrect", q.id.n, value)
            ELSE /\ UNCHANGED wrong_answers
                 /\ last' = Event("submitAnswer", "Raised", q.id.n, value)
       ELSE /\ UNCHANGED wrong_answers
            /\ last' = Event("submitAnswer", "Correct", q.id.n, value)
    /\ UNCHANGED <<env, processed, slides_data, summary, quizzes, chat_history,
                   current_quiz_stage, ppt_context, feedback>>

\* Mutant: the option buttons stay enabled once an answer is recorded
RenderMultipleChoiceResubmit(q, value) ==
    IF q.options = <<>>
    THEN Signal("submitAnswer", "NoSuchInput", q.id.n, PyNone)
    ELSE IF value.t = "int" /\ value.n \in 0..(Len(q.options) - 1)
         THEN ClickOption(q, value)
         ELSE Signal("submitAnswer", "NoSuchInput", q.id.n, PyNone)

\* quiz.py:88-115: _render_multiple_choice and the click it may handle:
\* nothing is rendered without options, disabled buttons once an answer is
\* recorded, else one button per option
render_multiple_choice(q, value) ==
    IF q.options = <<>>
    THEN Signal("submitAnswer", "NoSuchInput", q.id.n, PyNone)
    ELSE IF q.id.n \in DOMAIN quiz_answers
         THEN Signal("submitAnswer", "AlreadyAnswered", q.id.n, value)
         ELSE IF value.t = "int" /\ value.n \in 0..(Len(q.options) - 1)
              THEN ClickOption(q, value)
              ELSE Signal("submitAnswer", "NoSuchInput", q.id.n, PyNone)

\* quiz.py:132-141: the submit button of a short-answer question that has
\* no recorded answer.  A correct answer that is no str raises at .strip().
SubmitText(q, value) ==
    LET correct_ans == GetDefault(q.answer, PyStr(<<>>)) IN
    /\ quiz_answers' = DictSet(quiz_answers, q.id.n, value)
    /\ IF correct_ans.t # "str"
       THEN /\ UNCHANGED wrong_answers
            /\ last' = Event("submitAnswer", "Raised", q.id.n, value)
       ELSE IF Lower(Strip(value.s)) # Lower(Strip(correct_ans.s))
            THEN /\ wrong_answers' = Append(wrong_answers,
                        WrongAnswer(q, value, correct_ans))
                 /\ last' = Event("submitAnswer", "Incorrect", q.id.n, value)
            ELSE /\ UNCHANGED wrong_answers
                 /\ last' = Event("submitAnswer", "Correct", q.id.n, value)
    /\ UNCHANGED <<env, processed, slides_data, summary, quizzes, chat_history,
                   current_quiz_stage, ppt_context, feedback>>

\* Mutant: the text input stays once an answer is recorded
RenderShortAnswerResubmit(q, value) ==
    IF value.t = "str"
    THEN SubmitText(q, value)
    ELSE Signal("submitAnswer", "NoSuchInput", q.id.n, PyNone)

\* quiz.py:118-141: _render_short_answer and the submit it may handle: the
\* recorded answer is shown once there is one, else a text input and a button
render_short_answer(q, value) ==
    IF q.id.n \in DOMAIN quiz_answers
    THEN Signal("submitAnswer", "AlreadyAnswered", q.id.n, value)
    ELSE IF value.t = "str"
         THEN SubmitText(q, value)
         ELSE Signal("submitAnswer", "NoSuchInput", q.id.n, PyNone)

\* quiz.py:58-72: the question with this id among those rendered, if any
Rendered(qid) == { j \in 1..Len(CurrentQuestions) : CurrentQuestions[j].id.n = qid }

\* quiz.py:66-72: the dispatch on the question type; a type other than
\* multiple_choice and short_answer (fill_blank, essay) gets no input at
\* all, so what the learner would submit goes nowhere
submitAnswer(qid, value) ==
    /\ Started
    /\ processed
    /\ IF Rendered(qid) = {}
       THEN Signal("submitAnswer", "QuestionNotFound", qid, PyNone)
       ELSE LET q == CurrentQuestions[CHOOSE j \in Rendered(qid) : TRUE] IN
            CASE q.type = "multiple_choice" -> render_multiple_choice(q, value)
              [] q.type = "short_answer" -> render_short_answer(q, value)
              [] OTHER -> Signal("submitAnswer", "NoSuchInput", qid, value)

-----------------------------------------------------------------------------
(* Review Note and AI Tutor *)

\* Mutant: the degraded feedback carries no recommendation
GenerateFeedbackBareFailure(wrong, outcome) ==
    IF wrong = <<>>
    THEN [feedback |-> [analysis |-> "all correct", weak_areas |-> 0,
                        recommendations |-> 0],
          calls |-> 0]
    ELSE IF outcome = "ok"
         THEN [feedback |-> [analysis |-> "model", weak_areas |-> 1,
                             recommendations |-> 2],
               calls |-> 1]
         ELSE [feedback |-> [analysis |-> "feedback failed", weak_areas |-> 0,
                             recommendations |-> 0],
               calls |-> 1]

\* Mutant: no early return, the model is called for an empty ledger too
GenerateFeedbackAlwaysCalls(wrong, outcome) ==
    IF outcome = "ok"
    THEN [feedback |-> [analysis |-> "model", weak_areas |-> 1, recommendations |-> 2],
          calls |-> 1]
    ELSE [feedback |-> [analysis |-> "feedback failed", weak_areas |-> 0,
                        recommendations |-> 2],
          calls |-> 1]

\* generate_feedback() with the number of invoke_bedrock_direct calls it
\* makes: the early return for an empty ledger (generator.py:419-424), else
\* one call, whose parsed result or whose degraded replacement is returned
generate_feedback_traced(wrong, outcome) ==
    IF wrong = <<>>
    THEN [feedback |-> [analysis |-> "all correct", weak_areas |-> 0,
                        recommendations |-> 0],
          calls |-> 0]
    ELSE IF outcome = "ok"
         THEN [feedback |-> [analysis |-> "model", weak_areas |-> 1,
                             recommendations |-> 2],
               calls |-> 1]
         ELSE [feedback |-> [analysis |-> "feedback failed", weak_areas |-> 0,
                             recommendations |-> 2],
               calls |-> 1]

\* generate_feedback(): the fixed positive analysis for an empty ledger, the
\* parsed model result, or the degraded feedback
generate_feedback(wrong, outcome) == generate_feedback_traced(wrong, outcome).feedback

\* review.py:31-40: the analysis button, rendered while the ledger is not
\* empty and no feedback is stored
FeedbackOffered == processed /\ wrong_answers # <<>> /\ feedback = NoFeedback

generateFeedback(outcomes) ==
    /\ Started
    /\ FeedbackOffered
    /\ \E outcome \in outcomes :
          /\ feedback' = generate_feedback(wrong_answers, outcome)
          /\ last' = Event("generate_feedback", "Done", 0, PyStr(<<outcome>>))
    /\ UNCHANGED <<env, processed, slides_data, summary, quizzes, quiz_answers,
                   wrong_answers, chat_history, current_quiz_stage, ppt_context>>

\* generate_feedback called on the session's ledger as it is, empty or not
\* (the function itself, without the guard of the Review Note tab); the
\* event carries the number of model calls made
callGenerateFeedback(outcomes) ==
    /\ Started
    /\ processed
    /\ \E outcome \in outcomes :
          /\ feedback' = generate_feedback(wrong_answers, outcome)
          /\ last' = Event("generate_feedback", "Called", 0,
                          PyInt(generate_feedback_traced(wrong_answers, outcome).calls))
    /\ UNCHANGED <<env, processed, slides_data, summary, quizzes, quiz_answers,
                   wrong_answers, chat_history, current_quiz_stage, ppt_context>>

Message(role, content) == [role |-> role, content |-> content]

\* get_tutor_response(): the model's answer, or the inline error string
get_tutor_response(outcome) == IF outcome = "ok" THEN "answer" ELSE "tutor failed"

\* chatbot.py:141: the number of history messages forwarded
HistoryWindow == 10

\* Mutant: one message fewer than the window is kept
LastNButOne(seq, n) ==
    IF Len(seq) <= n - 1 THEN seq ELSE SubSeq(seq, Len(seq) - n + 2, Len(seq))

\* seq[-n:] of Python, for n > 0
LastN(seq, n) ==
    IF Len(seq) <= n THEN seq ELSE SubSeq(seq, Len(seq) - n + 1, Len(seq))

\* Mutant: the question is forwarded twice, in the history and as the input
TutorMessagesWithQuestionTwice(user_input, ppt_content, history) ==
    [system |-> ppt_content,
     messages |->
        [i \in 1..Len(LastN(Append(history, Message("user", user_input)),
                            HistoryWindow)) |->
            Message(IF LastN(Append(history, Message("user", user_input)),
                             HistoryWindow)[i].role = "user"
                    THEN "user" ELSE "assistant",
                    LastN(Append(history, Message("user", user_input)),
                          HistoryWindow)[i].content)]
            \o <<Message("user", user_input)>>]

\* chatbot.py:134-144: the messages of one request: the system prompt built
\* around the deck context, the last HistoryWindow messages of the history
\* passed in (HumanMessage for role "user", AIMessage for any other role),
\* then the question
tutor_messages(user_input, ppt_content, history) ==
    [system |-> ppt_content,
     messages |->
        [i \in 1..Len(LastN(history, HistoryWindow)) |->
            Message(IF LastN(history, HistoryWindow)[i].role = "user"
                    THEN "user" ELSE "assistant",
                    LastN(history, HistoryWindow)[i].content)]
            \o <<Message("user", user_input)>>]

\* The event of one chat action: the outcome of the model call, whether a
\* request left for the model, and the request built
ChatEvent(outcome, sent, request) ==
    Event("chat", "Done", 0,
          [t |-> "request", n |-> 0, s |-> <<outcome>>, sent |-> sent,
           system |-> request.system, messages |-> request.messages])

\* Mutant: a failed call leaves the question without a reply
AskDropsErrorReply(user_input, outcome, sent) ==
    /\ chat_history' =
          IF outcome = "ok"
          THEN chat_history \o << Message("user", user_input),
                                  Message("assistant", get_tutor_response(outcome)) >>
          ELSE Append(chat_history, Message("user", user_input))
    /\ last' = ChatEvent(outcome, sent,
                    tutor_messages(user_input, ppt_context, chat_history))
    /\ UNCHANGED <<env, processed, slides_data, summary, quizzes, quiz_answers,
                   wrong_answers, current_quiz_stage, ppt_context, feedback>>

\* tutor.py:60-70 (typed question) and 22-35 (suggested question): the
\* question is appended, get_tutor_response is given the history without it
\* (chat_history[:-1]), and its return value is appended as the reply
Ask(user_input, outcome, sent) ==
    /\ chat_history' = chat_history \o
          << Message("user", user_input),
             Message("assistant", get_tutor_response(outcome)) >>
    /\ last' = ChatEvent(outcome, sent,
                    tutor_messages(user_input, ppt_context, chat_history))
    /\ UNCHANGED <<env, processed, slides_data, summary, quizzes, quiz_answers,
                   wrong_answers, current_quiz_stage, ppt_context, feedback>>

\* chatbot.py:115-120, 153-155: what one call can come to.  With
\* ANTHROPIC_API_KEY set it is one of the given outcomes and a request was
\* sent; without it ChatAnthropic(api_key=None) either raises in the
\* constructor (nothing is sent) or the request goes out without a key and
\* is refused: which of the two depends on the library version, the handler
\* gets the inline error string in both cases
TutorCalls(outcomes) ==
    IF env.ANTHROPIC_API_KEY
    THEN { <<outcome, TRUE>> : outcome \in outcomes }
    ELSE { <<"failed", sent>> : sent \in BOOLEAN }

\* tutor.py:57-70 (typed question) and 21-35 (suggested question)
chat(outcomes) ==
    /\ Started
    /\ processed
    /\ Len(chat_history) + 2 <= MaxChat
    /\ \E call \in TutorCalls(outcomes) : Ask("question", call[1], call[2])

\* tutor.py:39-42: the "clear conversation" button
clearChat ==
    /\ Started
    /\ processed
    /\ chat_history # <<>>
    /\ chat_history' = <<>>
    /\ last' = Event("clear_chat", "Done", 0, PyNone)
    /\ UNCHANGED <<env, processed, slides_data, summary, quizzes, quiz_answers,
                   wrong_answers, current_quiz_stage, ppt_context, feedback>>

-----------------------------------------------------------------------------
(* Exam export: src/utils/pdf_generator.py and src/components/dashboard.py *)

\* One paragraph of the story: what it is (the exam title, the subtitle, the
\* name field, a question line, an option line, the blank of a short answer,
\* an answer line), the number of the question it belongs to (0 for the
\* heading paragraphs) and what it shows
Para(kind, q_num, value) == [kind |-> kind, q_num |-> q_num, value |-> value]

\* pdf_generator.py:99-117: the paragraphs of one question.  The answer line
\* of a multiple_choice question shows the label chr(ord(first label) +
\* answer_idx), here the index itself; that of a short_answer question the
\* formatted answer, here the answer itself ('' when the key is absent)
QuestionStory(q, q_num, include_answers) ==
    <<Para("question", q_num, q.id)>>
      \o (CASE q.type = "multiple_choice" ->
                 [idx \in 1..Len(q.options) |-> Para("option", q_num, PyInt(idx - 1))]
                   \o (IF include_answers
                       THEN <<Para("answer", q_num,
                                   IF q.answer = PyAbsent THEN PyInt(0) ELSE q.answer)>>
                       ELSE <<>>)
             [] q.type = "short_answer" ->
                 <<Para("blank", q_num, PyNone)>>
                   \o (IF include_answers
                       THEN <<Para("answer", q_num,
                                   IF q.answer = PyAbsent THEN PyStr(<<>>) ELSE q.answer)>>
                       ELSE <<>>)
             [] OTHER -> <<>>)

\* pdf_generator.py:89-119: the loop over the stages and their questions,
\* q_num counting on across the stages
RECURSIVE QuestionsStory(_, _, _)
QuestionsStory(qs, q_num, include_answers) ==
    IF qs = <<>> THEN <<>>
    ELSE QuestionStory(Head(qs), q_num, include_answers)
           \o QuestionsStory(Tail(qs), q_num + 1, include_answers)

\* pdf_generator.py:109-110: chr(ord(...) + answer_idx) raises TypeError when
\* the answer of a multiple_choice question is None or a string
ExamRaises(quiz_set, include_answers) ==
    /\ include_answers
    /\ \E i \in 1..Len(AllQuestions(quiz_set)) :
          /\ AllQuestions(quiz_set)[i].type = "multiple_choice"
          /\ AllQuestions(quiz_set)[i].answer.t \in {"None", "str"}

\* pdf_generator.py:75-122: the story generate_exam_pdf builds.  The stage
\* headings are left out: a stage of the model carries no name
generate_exam_pdf(quiz_set, title, include_answers) ==
    <<Para("title", 0, PyNone)>>
      \o (IF title # "" THEN <<Para("subtitle", 0, PyNone)>> ELSE <<>>)
      \o <<Para("name", 0, PyNone)>>
      \o QuestionsStory(AllQuestions(quiz_set), 1, include_answers)

ExportEvent(include_answers) ==
    IF ExamRaises(quizzes, include_answers)
    THEN Event("generate_exam_pdf", "TypeError", 0,
               [t |-> "story", n |-> 1, s |-> <<>>])
    ELSE Event("generate_exam_pdf", "Done", 0,
               [t |-> "story", n |-> IF include_answers THEN 1 ELSE 0,
                s |-> generate_exam_pdf(quizzes, summary.one_line, include_answers)])

\* Mutant: the export renumbers the questions of the Quiz Set
ExportExamRenumbers(include_answers) ==
    /\ Started
    /\ processed
    /\ last' = ExportEvent(include_answers)
    /\ quizzes' = AssignIds(quizzes, 2)
    /\ UNCHANGED <<env, processed, slides_data, summary, quiz_answers,
                   wrong_answers, chat_history, current_quiz_stage, ppt_context,
                   feedback>>

\* dashboard.py:74-88: the "include answers" checkbox and the export button
exportExam(include_answers) ==
    /\ Started
    /\ processed
    /\ last' = ExportEvent(include_answers)
    /\ UNCHANGED <<env, processed, slides_data, summary, quizzes, quiz_answers,
                   wrong_answers, chat_history, current_quiz_stage, ppt_context,
                   feedback>>

-----------------------------------------------------------------------------
(* Specifications *)

\* app.py:104-132: the initial session state
Init ==
    /\ processed = FALSE
    /\ slides_data = <<>>
    /\ summary = NoSummary
    /\ quizzes = <<>>
    /\ quiz_answers = EmptyDict
    /\ wrong_answers = <<>>
    /\ chat_history = <<>>
    /\ current_quiz_stage = 0
    /\ ppt_context = <<>>
    /\ feedback = NoFeedback
    /\ env = AllCredentials
    /\ last = Event("init", "Done", 0, PyNone)

\* The deck and the model outcomes of the session specification
SessionDecks == { << Slide(1, 2), Slide(2, 0) >> }

SessionOutcomes == {"ok"}

QuestionIds == 1..5

Next ==
    \/ ProcessPpt(SessionDecks, SessionOutcomes, QuizResponses)
    \/ NewFileUpload
    \/ advance
    \/ retreat
    \/ reset
    \/ \E qid \in QuestionIds, value \in SubmitValues : submitAnswer(qid, value)
    \/ generateFeedback(CallOutcomes)
    \/ chat(ModelOutcomes)
    \/ clearChat
    \/ \E include_answers \in BOOLEAN : exportExam(include_answers)

Spec == Init /\ [][Next]_vars

\* The generator on its own: every deck of ParsedDecks is processed with
\* every response of GenResponses
NextGen ==
    \/ ProcessPpt(ParsedDecks, SessionOutcomes, GenResponses)
    \/ NewFileUpload

SpecGen == Init /\ [][NextGen]_vars

\* Deck processing with every combination of failing model calls
FailResponses ==
    { Response("object", TRUE, st) :
        st \in { << Stage(<<MC(PyInt(1))>>), Stage(<<>>), Stage(<<>>) >>,
                 << Stage(<<Text("short_answer", PyStr(Paris))>>) >>,
                 << >> } }
        \cup { Response("transport", FALSE, <<>>), Response("malformed", FALSE, <<>>),
               Response("array", FALSE, <<>>), Response("object", FALSE, <<>>) }

NextFail ==
    \/ ProcessPpt(ParsedDecks, CallOutcomes, FailResponses)
    \/ NewFileUpload

SpecFail == Init /\ [][NextFail]_vars

\* clean_json_response on its own: responses made of leading prose and
\* fence, one well-formed JSON value nested up to JsonMaxDepth, trailing fence
\* and prose
JsonMaxDepth == 1

JsonStrings == { <<"\"", c, "\"">> : c \in {"a", "{", "}", "[", "]"} }

RECURSIVE JsonValues(_)
JsonValues(depth) ==
    IF depth = 0
    THEN { <<"{", "}">>, <<"[", "]">> }
    ELSE JsonValues(depth - 1)
           \cup { <<"[">> \o v \o <<"]">> : v \in JsonValues(depth - 1) \cup JsonStrings }
           \cup { <<"{", "\"", "k", "\"", ":">> \o v \o <<"}">> :
                    v \in JsonValues(depth - 1) \cup JsonStrings }

JsonLeads ==
    { <<>>, <<"a", " ">>, FenceJson \o <<"\n">>, Fence \o <<"\n">>,
      <<"a", "\n">> \o FenceJson \o <<"\n">> }

JsonTrails ==
    { <<>>, <<"\n">> \o Fence, <<" ", "a">>, <<"\n">> \o Fence \o <<"\n", "a">> }

\* One call of clean_json_response; the event carries its argument, the
\* JSON value inside it and the text returned
cleanJson ==
    /\ \E lead \in JsonLeads, json \in JsonValues(JsonMaxDepth), trail \in JsonTrails :
          last' = Event("clean_json_response", "Done", 0,
                        [t |-> "json", n |-> 0,
                         s |-> clean_json_response(lead \o json \o trail),
                         json |-> json, text |-> lead \o json \o trail])
    /\ UNCHANGED <<env, processed, slides_data, summary, quizzes, quiz_answers,
                   wrong_answers, chat_history, current_quiz_stage, ppt_context,
                   feedback>>

NextJson == cleanJson

SpecJson == Init /\ [][NextJson]_vars

\* Sessions started under every setting of the two credentials
InitCred ==
    /\ processed = FALSE
    /\ slides_data = <<>>
    /\ summary = NoSummary
    /\ quizzes = <<>>
    /\ quiz_answers = EmptyDict
    /\ wrong_answers = <<>>
    /\ chat_history = <<>>
    /\ current_quiz_stage = 0
    /\ ppt_context = <<>>
    /\ feedback = NoFeedback
    /\ env \in [{"AWS_BEARER_TOKEN_BEDROCK", "ANTHROPIC_API_KEY"} -> BOOLEAN]
    /\ last = Event("init", "Done", 0, PyNone)

NextCred ==
    \/ ProcessPpt(SessionDecks, SessionOutcomes, FailResponses)
    \/ NewFileUpload
    \/ \E qid \in QuestionIds, value \in SubmitValues : submitAnswer(qid, value)
    \/ generateFeedback(ModelOutcomes)
    \/ chat(ModelOutcomes)
    \/ clearChat

SpecCred == InitCred /\ [][NextCred]_vars

\* The AI Tutor on its own: conversations of up to TutorMaxChat messages,
\* typed and suggested questions, answered or failing
TutorMaxChat == 14

TutorQuestions == {"question", "suggested question"}

tutorChat ==
    /\ Started
    /\ processed
    /\ Len(chat_history) + 2 <= TutorMaxChat
    /\ \E user_input \in TutorQuestions, call \in TutorCalls(ModelOutcomes) :
          Ask(user_input, call[1], call[2])

NextTutor ==
    \/ ProcessPpt(SessionDecks, SessionOutcomes, {Response("transport", FALSE, <<>>)})
    \/ NewFileUpload
    \/ tutorChat
    \/ clearChat

SpecTutor == Init /\ [][NextTutor]_vars

\* The Feedback Generator on its own: a quiz session whose ledger, empty or
\* not, is handed to generate_feedback
NextFeedback ==
    \/ ProcessPpt(SessionDecks, SessionOutcomes, QuizResponses)
    \/ NewFileUpload
    \/ advance
    \/ \E qid \in QuestionIds, value \in SubmitValues : submitAnswer(qid, value)
    \/ callGenerateFeedback(ModelOutcomes)

SpecFeedback == Init /\ [][NextFeedback]_vars

-----------------------------------------------------------------------------
(* Properties *)

\* The number of stages of the loaded Quiz Set
stageCount == Len(quizzes)

\* The questions of stage i (counted from 0), none outside the Quiz Set
StageQuestions(i) ==
    IF i \in 0..(stageCount - 1) THEN quizzes[i + 1].questions ELSE <<>>

StageIds(i) == { StageQuestions(i)[j].id.n : j \in 1..Len(StageQuestions(i)) }

\* The questions of the stage at currentStageIndex, as a set
CurrentStageSet ==
    { StageQuestions(current_quiz_stage)[j] :
        j \in 1..Len(StageQuestions(current_quiz_stage)) }

Answered(qid) == qid \in DOMAIN quiz_answers

LedgerIds == { wrong_answers[i].question.id.n : i \in 1..Len(wrong_answers) }

\* The ledger after the step is the ledger before it plus one entry for q
AppendedOne(q) ==
    /\ Len(wrong_answers') = Len(wrong_answers) + 1
    /\ SubSeq(wrong_answers', 1, Len(wrong_answers)) = wrong_answers
    /\ wrong_answers'[Len(wrong_answers')].question = q

\* C1: submitAnswer on a not-yet-answered multiple_choice question of the
\* current stage records the answer; with the index equal to correctIndex the
\* outcome is Correct and the ledger is unchanged, with any other index the
\* outcome is Incorrect and exactly one entry is appended to the ledger.
C1_GradingDeterminism ==
    [][\A q \in CurrentStageSet :
          ( /\ processed
            /\ q.type = "multiple_choice"
            /\ ~Answered(q.id.n)
            /\ last'.op = "submitAnswer"
            /\ last'.qid = q.id.n
            /\ last'.value.t = "int"
            /\ last'.value.n \in 0..(Len(q.options) - 1) )
          => /\ quiz_answers' = DictSet(quiz_answers, q.id.n, last'.value)
             /\ IF last'.value = q.answer
                THEN last'.outcome = "Correct" /\ wrong_answers' = wrong_answers
                ELSE last'.outcome = "Incorrect" /\ AppendedOne(q)]_vars

\* C2: a submission for a Question.id that already has an Answer Record
\* entry leaves the Answer Record and the ledger as they were, whatever the
\* value; for a multiple_choice or short_answer question of the current stage
\* the outcome is AlreadyAnswered.
C2_IdempotentReject ==
    [][(last'.op = "submitAnswer" /\ Answered(last'.qid))
          => /\ quiz_answers' = quiz_answers
             /\ wrong_answers' = wrong_answers
             /\ \A q \in CurrentStageSet :
                   (q.id.n = last'.qid /\ q.type \in {"multiple_choice", "short_answer"})
                       => last'.outcome = "AlreadyAnswered"]_vars

\* C2 witness: a second submission with another value, for a question whose
\* first answer was wrong, has been rejected
C2_Witness ==
    /\ last.op = "submitAnswer"
    /\ last.outcome = "AlreadyAnswered"
    /\ Answered(last.qid)
    /\ last.value # quiz_answers[last.qid]
    /\ last.qid \in LedgerIds

\* C3: an answer is recorded only for a question of the stage at
\* currentStageIndex; a submission for a Question.id of any other stage gives
\* QuestionNotFound and leaves the Answer Record and the ledger unchanged.
C3_StageGating ==
    [][/\ \A qid \in (DOMAIN quiz_answers') \ (DOMAIN quiz_answers) :
             qid \in StageIds(current_quiz_stage)
       /\ ( /\ processed
            /\ last'.op = "submitAnswer"
            /\ ~(last'.qid \in StageIds(current_quiz_stage))
            /\ \E i \in 0..(stageCount - 1) : last'.qid \in StageIds(i) )
          => /\ last'.outcome = "QuestionNotFound"
             /\ quiz_answers' = quiz_answers
             /\ wrong_answers' = wrong_answers]_vars

\* C3 witness: a submission for an unanswered question of another stage has
\* been refused
C3_Witness ==
    /\ last.op = "submitAnswer"
    /\ last.outcome = "QuestionNotFound"
    /\ ~(last.qid \in StageIds(current_quiz_stage))
    /\ \E i \in 0..(stageCount - 1) : last.qid \in StageIds(i)
    /\ ~Answered(last.qid)
    /\ quiz_answers # EmptyDict

\* C4: advance() from the last stage (currentStageIndex = stageCount - 1)
\* moves the session to Complete (currentStageIndex = stageCount); advance()
\* from Complete signals AtFinalStage and changes nothing.
C4_AdvanceToComplete ==
    [][(processed /\ stageCount > 0 /\ last'.op = "advance")
          => /\ current_quiz_stage = stageCount - 1
                   => current_quiz_stage' = stageCount
             /\ current_quiz_stage = stageCount
                   => /\ current_quiz_stage' = current_quiz_stage
                      /\ last'.outcome = "AtFinalStage"]_vars

\* C5: with a loaded Quiz Set, 0 <= currentStageIndex <= stageCount.
C5_StageIndexInRange ==
    processed => current_quiz_stage \in 0..stageCount

\* The session after a restart: stage 0, nothing recorded, the same Quiz Set
ResetDone ==
    /\ current_quiz_stage' = 0
    /\ quiz_answers' = EmptyDict
    /\ wrong_answers' = <<>>
    /\ feedback' = NoFeedback
    /\ quizzes' = quizzes

\* C6 as stated: reset() from any state with a loaded Quiz Set leads to stage
\* 0, an empty Answer Record, an empty ledger and no feedback, and keeps the
\* Quiz Set.
C6_ResetFromAnyState ==
    [][(processed /\ last'.op = "reset") => ResetDone]_vars

\* The all-complete display of a Quiz Set that has at least one question
Complete ==
    /\ processed
    /\ current_quiz_stage >= stageCount
    /\ \E i \in 0..(stageCount - 1) : StageQuestions(i) # <<>>

\* C6 as amended: reset() is offered only in the all-complete display; there
\* it leads to stage 0, an empty Answer Record, an empty ledger and no
\* feedback and keeps the Quiz Set; anywhere else it is not offered and the
\* session is unchanged.
C6_ResetWhenComplete ==
    [][last'.op = "reset"
          => IF Complete
             THEN ResetDone /\ last'.outcome = "Done"
             ELSE UNCHANGED session /\ last'.outcome = "NotOffered"]_vars

\* C6 witness: a restart has acted (the Answer Record of a Quiz Set with
\* questions is empty again)
C6_Witness ==
    /\ last.op = "reset"
    /\ last.outcome = "Done"
    /\ processed
    /\ stageCount > 0
    /\ current_quiz_stage = 0
    /\ quiz_answers = EmptyDict

\* C7: retreat() at stage 0 signals AtFirstStage and changes no session
\* field; from InStage(i) with i > 0 it moves to InStage(i - 1).
C7_RetreatBounds ==
    [][(processed /\ last'.op = "retreat")
          => /\ current_quiz_stage = 0
                   => /\ last'.outcome = "AtFirstStage"
                      /\ UNCHANGED <<session, processed, slides_data, summary,
                                     chat_history, ppt_context>>
             /\ (current_quiz_stage > 0 /\ current_quiz_stage < stageCount)
                   => current_quiz_stage' = current_quiz_stage - 1]_vars

\* C7 witness: retreat() has been refused at stage 0 of a session that has
\* recorded answers
C7_Witness ==
    /\ last.op = "retreat"
    /\ last.outcome = "AtFirstStage"
    /\ current_quiz_stage = 0
    /\ quiz_answers # EmptyDict

\* C8: the Question.id values of a generated Quiz Set, read stage by stage in
\* order, are exactly 1, 2, ..., n.
C8_ContiguousIds ==
    processed =>
        \A p \in 1..Len(AllQuestions(quizzes)) : AllQuestions(quizzes)[p].id = PyInt(p)

\* C8 witness: a Quiz Set of three stages with questions in two of them, two
\* in one stage, has been generated
C8_Witness ==
    /\ processed
    /\ stageCount = 3
    /\ Len(AllQuestions(quizzes)) = 3
    /\ Len(StageQuestions(0)) = 0
    /\ Len(StageQuestions(1)) = 2

\* C9: the question id of every ledger entry is a key of the Answer Record.
C9_LedgerIdsAnswered ==
    \A i \in 1..Len(wrong_answers) : Answered(wrong_answers[i].question.id.n)

\* C9 witness: the ledger holds two entries after "new file upload"
C9_Witness ==
    /\ last.op = "new_file_upload"
    /\ Len(wrong_answers) >= 2

\* C10: apart from reset and reprocessing, every step keeps every recorded
\* answer and every ledger entry in place (both only grow), and the ledger
\* never holds two entries for the same question id.
C10_MonotoneRecords ==
    [][/\ ~(last'.op \in {"reset", "process_ppt"})
          => /\ \A qid \in DOMAIN quiz_answers :
                   /\ qid \in DOMAIN quiz_answers'
                   /\ quiz_answers'[qid] = quiz_answers[qid]
             /\ Len(wrong_answers') >= Len(wrong_answers)
             /\ SubSeq(wrong_answers', 1, Len(wrong_answers)) = wrong_answers
       /\ \A i, j \in 1..Len(wrong_answers') :
             wrong_answers'[i].question.id = wrong_answers'[j].question.id => i = j]_vars

\* C10 witness: two ledger entries, feedback and a chat exchange, at a later
\* stage
C10_Witness ==
    /\ Len(wrong_answers) >= 2
    /\ feedback # NoFeedback
    /\ chat_history # <<>>
    /\ current_quiz_stage > 0
    /\ last.op = "retreat"

\* The entry a step has appended to the ledger
NewEntry == wrong_answers'[Len(wrong_answers')]

\* C11: the entry appended for a multiple_choice question carries the text
\* of the option the learner chose and the text of the option at correctIndex,
\* and these two differ; the entry appended for a text question carries the
\* submitted text and correctText.
C11_WrongAnswerEntry ==
    [][(last'.op = "submitAnswer" /\ Len(wrong_answers') = Len(wrong_answers) + 1)
          => IF NewEntry.question.type = "multiple_choice"
             THEN /\ NewEntry.user_answer =
                         PyStr(Index(NewEntry.question.options, last'.value))
                  /\ NewEntry.question.answer.t = "int"
                  /\ NewEntry.question.answer.n \in
                         0..(Len(NewEntry.question.options) - 1)
                  /\ NewEntry.correct_answer =
                         PyStr(Index(NewEntry.question.options, NewEntry.question.answer))
                  /\ NewEntry.correct_answer # NewEntry.user_answer
             ELSE /\ NewEntry.user_answer = last'.value
                  /\ NewEntry.correct_answer = NewEntry.question.answer]_vars

\* C12: a text submitted for a not-yet-answered short_answer or fill_blank
\* question of the current stage is recorded and graded Correct iff, trimmed
\* and lower-cased, it equals correctText trimmed and lower-cased; a ledger
\* entry is appended iff the outcome is Incorrect.
C12_TextGrading ==
    [][\A q \in CurrentStageSet :
          ( /\ processed
            /\ q.type \in {"short_answer", "fill_blank"}
            /\ ~Answered(q.id.n)
            /\ last'.op = "submitAnswer"
            /\ last'.qid = q.id.n
            /\ last'.value.t = "str" )
          => /\ quiz_answers' = DictSet(quiz_answers, q.id.n, last'.value)
             /\ q.answer.t = "str"
             /\ IF Lower(Strip(last'.value.s)) = Lower(Strip(q.answer.s))
                THEN last'.outcome = "Correct" /\ wrong_answers' = wrong_answers
                ELSE last'.outcome = "Incorrect" /\ AppendedOne(q)]_vars

\* C13: a submission for a not-yet-answered essay question of the current
\* stage records the submitted value, yields Ungraded and leaves the ledger
\* as it is.
C13_EssayUngraded ==
    [][\A q \in CurrentStageSet :
          ( /\ processed
            /\ q.type = "essay"
            /\ ~Answered(q.id.n)
            /\ last'.op = "submitAnswer"
            /\ last'.qid = q.id.n )
          => /\ quiz_answers' = DictSet(quiz_answers, q.id.n, last'.value)
             /\ last'.outcome = "Ungraded"
             /\ wrong_answers' = wrong_answers]_vars

\* C14: for the current stage, answeredCount is the number of its questions
\* whose id is a key of the Answer Record, total the number of its questions,
\* and 0 <= answeredCount <= total; rendering the progress raises no error,
\* and for a stage with zero questions the progress value is 0.
C14_ProgressBounds ==
    (processed /\ current_quiz_stage < stageCount)
        => /\ answered_q(StageQuestions(current_quiz_stage))
                 = Cardinality({ q \in CurrentStageSet : Answered(q.id.n) })
           /\ total_q(StageQuestions(current_quiz_stage))
                 = Len(StageQuestions(current_quiz_stage))
           /\ answered_q(StageQuestions(current_quiz_stage)) >= 0
           /\ answered_q(StageQuestions(current_quiz_stage))
                 <= total_q(StageQuestions(current_quiz_stage))
           /\ ~render_progress(StageQuestions(current_quiz_stage)).raised
           /\ ~progress_value(StageQuestions(current_quiz_stage)).raised
           /\ StageQuestions(current_quiz_stage) = <<>>
                 => /\ progress_value(StageQuestions(current_quiz_stage)).percent = 0
                    /\ render_progress(StageQuestions(current_quiz_stage)).percent = 0

\* C14 witness: three stages, the third empty, reached by advancing twice
\* with the two questions of stage 0 answered
C14_Witness ==
    /\ processed
    /\ stageCount = 3
    /\ current_quiz_stage = 2
    /\ StageQuestions(2) = <<>>
    /\ StageQuestions(0) # <<>>
    /\ \A q \in { StageQuestions(0)[j] : j \in 1..Len(StageQuestions(0)) } :
          Answered(q.id.n)
    /\ last.op = "advance"
    /\ last.outcome = "Moved"

\* C15: after process_ppt has stored a Quiz Set, whatever the model call
\* returned, the Quiz Set has at least one stage.
C15_LoadableQuizSet ==
    processed => stageCount >= 1

\* The fallback Quiz Set as the claim describes it
IsFallbackQuizSet(qz) ==
    /\ Len(qz) = 3
    /\ Len(qz[1].questions) = 1
    /\ qz[1].questions[1].id = PyInt(1)
    /\ qz[2].questions = <<>>
    /\ qz[3].questions = <<>>
    /\ qz = get_fallback_quizzes

\* A process_ppt run whose parser did not raise
ParsedRun ==
    /\ last'.op = "process_ppt"
    /\ last'.value.s # <<"extract_slide_content">>

\* C16 as stated: when the model call fails (transport error, no parseable
\* JSON) neither function raises; generate_summary returns a degraded summary
\* whose fields are all empty, generate_quizzes the fixed fallback Quiz Set.
C16_DegradedEmpty ==
    [][ParsedRun
          => /\ last'.outcome = "Processed"
             /\ last'.value.s[1] \in {"failed", "malformed"}
                   => /\ summary'.one_line = ""
                      /\ summary'.keywords = 0
                      /\ summary'.slide_summaries = 0
             /\ last'.value.s[2] \in {"transport", "malformed"}
                   => IsFallbackQuizSet(quizzes')]_vars

\* C16 as amended: the degraded summary has no keywords and no slide
\* summaries, and its one_line is an error message (one for an unparseable
\* response, one built from the exception), not an empty text; the rest as
\* stated.
C16_DegradedValues ==
    [][ParsedRun
          => /\ last'.outcome = "Processed"
             /\ last'.value.s[1] \in {"failed", "malformed"}
                   => /\ summary'.one_line # ""
                      /\ summary'.one_line =
                            (IF last'.value.s[1] = "malformed"
                             THEN "summary: JSON parsing error"
                             ELSE "summary failed: error text")
                      /\ summary'.keywords = 0
                      /\ summary'.slide_summaries = 0
             /\ last'.value.s[2] \in {"transport", "malformed"}
                   => IsFallbackQuizSet(quizzes')]_vars

\* C16 witness: a run whose summary response was unparseable and whose quiz
\* request raised has stored the two degraded values
C16_Witness ==
    /\ last.op = "process_ppt"
    /\ last.outcome = "Processed"
    /\ last.value.s = <<"malformed", "transport">>
    /\ summary.keywords = 0
    /\ IsFallbackQuizSet(quizzes)

\* C17: when the parser does not raise, process_ppt runs to its end whatever
\* model calls fail: processed is set, a summary is stored, and a Quiz Set is
\* stored (the fallback when the quiz call failed).
C17_NeverHalts ==
    [][ParsedRun
          => /\ last'.outcome = "Processed"
             /\ processed'
             /\ summary' # NoSummary
             /\ last'.value.s[2] \in {"transport", "malformed"} => quizzes' # <<>>
             /\ ppt_context' = format_ppt_for_context(slides_data')]_vars

\* C17 witness: every model call of a run failed (image analysis, summary,
\* quizzes) and the study view is entered
C17_Witness ==
    /\ last.op = "process_ppt"
    /\ last.outcome = "Processed"
    /\ last.value.s = <<"failed", "transport">>
    /\ processed
    /\ \E i \in 1..Len(slides_data) : slides_data[i].vision_analysis = "analysis failed"
    /\ summary.one_line = "summary failed: error text"
    /\ quizzes = get_fallback_quizzes

\* C18: when the parser raises, process_ppt reports the error and ends with
\* processed = false and slides_data, summary and quizzes unchanged.
C18_ParseFailure ==
    [][( /\ last'.op = "process_ppt"
         /\ last'.value.s = <<"extract_slide_content">> )
          => /\ last'.outcome = "Raised"
             /\ processed' = FALSE
             /\ UNCHANGED <<slides_data, summary, quizzes>>]_vars

\* C18 witness: the parser has raised on a deck uploaded after "new file
\* upload" (the context of the previous deck is still there)
C18_Witness ==
    /\ last.op = "process_ppt"
    /\ last.outcome = "Raised"
    /\ last.value.s = <<"extract_slide_content">>
    /\ ~processed
    /\ slides_data = <<>>
    /\ quizzes = <<>>
    /\ ppt_context # <<>>

\* C19: whenever a process_ppt run sets processed, the session is at stage 0
\* with an empty Answer Record, an empty ledger, no feedback and an empty chat
\* history, whatever it held before.
C19_FreshSession ==
    [][(last'.op = "process_ppt" /\ processed')
          => /\ current_quiz_stage' = 0
             /\ quiz_answers' = EmptyDict
             /\ wrong_answers' = <<>>
             /\ feedback' = NoFeedback
             /\ chat_history' = <<>>]_vars

\* C19 witness: a deck has been processed after "new file upload", and the
\* run discarded at least two recorded answers of the previous Quiz Set
C19_Witness ==
    /\ last.op = "process_ppt"
    /\ last.outcome = "Processed"
    /\ last.value.n >= 2
    /\ processed
    /\ quiz_answers = EmptyDict

\* C20: generate_feedback called with an empty ledger makes no model call and
\* returns the fixed positive analysis with no weak areas and no
\* recommendations.
C20_EmptyLedgerFeedback ==
    [][( /\ last'.op = "generate_feedback"
         /\ last'.outcome = "Called"
         /\ wrong_answers = <<>> )
          => /\ last'.value = PyInt(0)
             /\ feedback' = [analysis |-> "all correct", weak_areas |-> 0,
                             recommendations |-> 0]]_vars

\* C20 witness: the function has been called with an empty ledger in a
\* session that has recorded answers (all of them right)
C20_Witness ==
    /\ last.op = "generate_feedback"
    /\ last.outcome = "Called"
    /\ wrong_answers = <<>>
    /\ quiz_answers # EmptyDict
    /\ feedback.analysis = "all correct"

\* C21: with a non-empty ledger and a model call that raised or whose
\* response could not be parsed, generate_feedback returns the degraded
\* Feedback (generic analysis, no weak areas, exactly two recommendations),
\* and the Answer Record, the ledger and the stage are unchanged.
C21_DegradedFeedback ==
    [][( /\ last'.op = "generate_feedback"
         /\ last'.outcome = "Done"
         /\ wrong_answers # <<>>
         /\ last'.value.s[1] \in {"failed", "malformed"} )
          => /\ feedback'.analysis = "feedback failed"
             /\ feedback'.weak_areas = 0
             /\ feedback'.recommendations = 2
             /\ UNCHANGED <<quiz_answers, wrong_answers, current_quiz_stage>>]_vars

\* C21 witness: the degraded Feedback is stored after an unparseable
\* response, in a session at a later stage with two ledger entries
C21_Witness ==
    /\ last.op = "generate_feedback"
    /\ last.outcome = "Done"
    /\ last.value = PyStr(<<"malformed">>)
    /\ feedback.analysis = "feedback failed"
    /\ Len(wrong_answers) >= 2
    /\ current_quiz_stage > 0

\* C24: when the tutor call fails the chat action appends the question and
\* the inline error string as the assistant's reply, and leaves the Quiz
\* Set, the Answer Record, the ledger, the stage and the feedback unchanged.
C24_ChatFailureInline ==
    [][(last'.op = "chat" /\ last'.value.s = <<"failed">>)
          => /\ Len(chat_history') = Len(chat_history) + 2
             /\ SubSeq(chat_history', 1, Len(chat_history)) = chat_history
             /\ chat_history'[Len(chat_history') - 1].role = "user"
             /\ chat_history'[Len(chat_history')]
                   = Message("assistant", "tutor failed")
             /\ UNCHANGED session]_vars

\* C24 witness: the error reply is in the history of a session that has
\* answers, ledger entries and feedback
C24_Witness ==
    /\ last.op = "chat"
    /\ last.value.s = <<"failed">>
    /\ chat_history[Len(chat_history)] = Message("assistant", "tutor failed")
    /\ wrong_answers # <<>>
    /\ feedback # NoFeedback
    /\ current_quiz_stage > 0

\* C29: while feedback is present no entry is appended to the ledger (the
\* feedback stored always stems from the ledger as it stands).
C29_FeedbackCurrent ==
    [][(feedback # NoFeedback /\ feedback' # NoFeedback)
          => wrong_answers' = wrong_answers]_vars

\* C22: no action that calls the model is handled while the credential its
\* call needs is not set (the Bedrock token for deck processing and feedback,
\* the Anthropic key for the tutor chat): the application has stopped at
\* startup instead.
C22_CredentialAtStartup ==
    [][/\ last'.op \in {"process_ppt", "generate_feedback"}
             => env.AWS_BEARER_TOKEN_BEDROCK
       /\ last'.op = "chat" => env.ANTHROPIC_API_KEY]_vars

\* roles user, assistant, user, assistant, ...
Alternates(seq) ==
    \A i \in 1..Len(seq) : seq[i].role = (IF i % 2 = 1 THEN "user" ELSE "assistant")

\* C25: one tutor request carries the system prompt with the deck context,
\* then the prior messages of the history if they are at most 10, else the 10
\* most recent of them, in their order, then the current question, once.
C25_BoundedHistory ==
    [][last'.op = "chat"
          => /\ last'.value.system = ppt_context
             /\ Len(last'.value.messages)
                   = (IF Len(chat_history) <= 10 THEN Len(chat_history) ELSE 10) + 1
             /\ \A i \in 1..(Len(last'.value.messages) - 1) :
                   last'.value.messages[i]
                       = chat_history[Len(chat_history)
                                        - (Len(last'.value.messages) - 1) + i]
             /\ last'.value.messages[Len(last'.value.messages)]
                   = chat_history'[Len(chat_history) + 1]
             /\ chat_history'[Len(chat_history) + 1].role = "user"]_vars

\* C25 witness: a question asked after twelve messages has been forwarded
\* with ten of them
C25_Witness ==
    /\ last.op = "chat"
    /\ Len(chat_history) = 14
    /\ Len(last.value.messages) = 11
    /\ last.value.messages[1] = chat_history[3]
    /\ last.value.messages[1] # chat_history[1]

\* C30: the chat history has even length and alternates user, assistant
\* from a user message on; the messages forwarded by the last chat action
\* start with a user message, alternate, and end with its question.
C30_Alternation ==
    /\ Len(chat_history) % 2 = 0
    /\ Alternates(chat_history)
    /\ last.op = "chat"
          => /\ Alternates(last.value.messages)
             /\ last.value.messages[1].role = "user"
             /\ last.value.messages[Len(last.value.messages)]
                   = chat_history[Len(chat_history) - 1]

\* C30 witness: a suggested question, asked after twelve messages among
\* which a failed reply, has been answered with the error string
C30_Witness ==
    /\ last.op = "chat"
    /\ Len(chat_history) = 14
    /\ chat_history[13].content = "suggested question"
    /\ chat_history[14].content = "tutor failed"
    /\ \E i \in 1..12 : chat_history[i].content = "tutor failed"
    /\ Len(last.value.messages) = 11

\* C23: for a response made of leading prose and fence, one well-formed JSON
\* value (whose strings may hold brackets and braces) and trailing fence and
\* prose, clean_json_response returns exactly that JSON value.
C23_ExtractsJson ==
    [][last'.op = "clean_json_response" => last'.value.s = last'.value.json]_vars

\* The answer lines and the blanks of question q_num in an exported story
AnswersOf(story, q_num) ==
    { i \in 1..Len(story) : story[i].kind = "answer" /\ story[i].q_num = q_num }

BlanksOf(story, q_num) ==
    { i \in 1..Len(story) : story[i].kind = "blank" /\ story[i].q_num = q_num }

\* The question lines of an exported story, in order
QuestionLines(story) == SelectSeq(story, LAMBDA para : para.kind = "question")

\* C26: an export builds a story in which the questions are numbered 1..n in
\* stage order; without answers no answer line appears; with answers every
\* multiple_choice question has its options and one answer line, every
\* short_answer and every fill_blank question has one answer line below its
\* blank, and no essay question has an answer line; the session is unchanged.
C26_ExamStory ==
    [][last'.op = "generate_exam_pdf"
         => LET story == last'.value.s
                qs == AllQuestions(quizzes)
            IN  /\ last'.outcome = "Done"
                /\ Len(QuestionLines(story)) = Len(qs)
                /\ \A n \in 1..Len(qs) :
                      /\ QuestionLines(story)[n].q_num = n
                      /\ QuestionLines(story)[n].value = qs[n].id
                      /\ last'.value.n = 0 => AnswersOf(story, n) = {}
                      /\ last'.value.n = 1 =>
                            CASE qs[n].type = "multiple_choice" ->
                                   /\ Cardinality(AnswersOf(story, n)) = 1
                                   /\ Cardinality({ i \in 1..Len(story) :
                                         story[i].kind = "option" /\ story[i].q_num = n })
                                        = Len(qs[n].options)
                              [] qs[n].type \in {"short_answer", "fill_blank"} ->
                                   /\ Cardinality(BlanksOf(story, n)) = 1
                                   /\ AnswersOf(story, n)
                                        = { i + 1 : i \in BlanksOf(story, n) }
                              [] OTHER -> AnswersOf(story, n) = {}
                /\ UNCHANGED <<processed, slides_data, summary, quizzes, quiz_answers,
                               wrong_answers, chat_history, current_quiz_stage,
                               ppt_context, feedback>>]_vars

\* C27: no step other than a processing run or a new file upload changes the
\* Quiz Set or any field of a question in it.
C27_QuizSetFrozen ==
    [][~(last'.op \in {"process_ppt", "new_file_upload"}) => quizzes' = quizzes]_vars

\* C27 witness: a session with a non-empty Quiz Set in which an answer has
\* been recorded, the tutor has replied, and an exam has just been exported
C27_Witness ==
    /\ last.op = "generate_exam_pdf"
    /\ last.outcome = "Done"
    /\ AllQuestions(quizzes) # <<>>
    /\ DOMAIN quiz_answers # {}
    /\ chat_history # <<>>

\* The calls of a processing run made on the slide numbered num
CallsOn(calls, num) == { c \in 1..Len(calls) : calls[c].slide_num = num }

\* C28: a processing run that completes has called the vision model once,
\* on the first image, for each slide with images and never for a slide
\* without; each slide with images carries the analysis (the error text of
\* a failed call included) and no other slide carries one; the tutor context
\* is built from the slides so annotated.  A run that raises in the parser
\* has made no call.
C28_VisionOncePerSlide ==
    [][last'.op = "process_ppt"
         => LET calls == last'.value.vision
            IN  IF last'.outcome = "Processed"
                THEN /\ \A i \in 1..Len(slides_data') :
                          IF slides_data'[i].images > 0
                          THEN /\ Cardinality(CallsOn(calls, slides_data'[i].slide_num)) = 1
                               /\ \A c \in CallsOn(calls, slides_data'[i].slide_num) :
                                     calls[c].image = 0
                               /\ slides_data'[i].vision_analysis
                                     \in {analyze_image(o) : o \in CallOutcomes}
                               /\ ppt_context'[i] =
                                     <<slides_data'[i].slide_num, "image_analysis",
                                       slides_data'[i].vision_analysis>>
                          ELSE /\ CallsOn(calls, slides_data'[i].slide_num) = {}
                               /\ slides_data'[i].vision_analysis = ""
                               /\ ppt_context'[i] = <<slides_data'[i].slide_num>>
                     /\ \A c \in 1..Len(calls) :
                          \E i \in 1..Len(slides_data') :
                              slides_data'[i].slide_num = calls[c].slide_num
                     /\ Len(ppt_context') = Len(slides_data')
                ELSE calls = <<>>]_vars

\* C28 witness: a completed run over a deck with a slide of two images whose
\* vision call failed and a slide without images
C28_Witness ==
    /\ last.op = "process_ppt"
    /\ last.outcome = "Processed"
    /\ \E i, k \in 1..Len(slides_data) :
          /\ slides_data[i].images > 1
          /\ slides_data[i].vision_analysis = analyze_image("failed")
          /\ slides_data[k].images = 0
    /\ Len(last.value.vision) = 1

====
